---- MODULE Spec2Model ----
(***************************************************************************)
(* Model of clay's test-suite generator (_clay.py): ClayTestBuilder walks  *)
(* a source tree, extracts test functions per file, accumulates them in    *)
(* its registry fields and renders clay_main.c and clay.h.                 *)
(*                                                                         *)
(* Text is modelled as sequences of code points, so that joining,          *)
(* replacing, prefix matching and lexicographic sorting are computed the   *)
(* way Python computes them on str values.                                 *)
(***************************************************************************)
EXTENDS Integers, Sequences, FiniteSets, TLC

VARIABLES pc, print_mode, modules, walked,
          declarations, suite_names, callback_data, suite_data,
          main_file, header_file, err

vars == <<pc, print_mode, modules, walked,
          declarations, suite_names, callback_data, suite_data,
          main_file, header_file, err>>

registry == <<declarations, suite_names, callback_data, suite_data>>

----------------------------------------------------------------------------
(* Bounds of the explored trees.                                           *)

\* number of files the walk visits
MaxFiles == 2
\* number of source lines in the whole tree
MaxLines == 2

----------------------------------------------------------------------------
(* Text literals, as code points.                                          *)

S_a          == <<97>>
S_b          == <<98>>
S_a_b        == <<97, 95, 98>>
S_us         == <<95>>
S_scope      == <<58, 58>>
S_dot_c      == <<46, 99>>
S_dot_h      == <<46, 104>>
S_test_      == <<116, 101, 115, 116, 95>>
S_void_      == <<118, 111, 105, 100, 32>>
S_args       == <<40, 118, 111, 105, 100, 41>>
S_extern_    == <<101, 120, 116, 101, 114, 110, 32>>
S_semi       == <<59>>
S_initialize == <<105, 110, 105, 116, 105, 97, 108, 105, 122, 101>>
S_cleanup    == <<99, 108, 101, 97, 110, 117, 112>>
S_clay_cb_   == <<95, 99, 108, 97, 121, 95, 99, 98, 95>>

----------------------------------------------------------------------------
(* Python str and list primitives.                                         *)

\* s.startswith(p)
StartsWith(s, p) ==
    /\ Len(p) <= Len(s)
    /\ SubSeq(s, 1, Len(p)) = p

\* s[n:]
DropFirst(s, n) == SubSeq(s, n + 1, Len(s))

\* s[:-n]
DropLast(s, n) == SubSeq(s, 1, Len(s) - n)

\* a < b on str: code point by code point, a proper prefix is smaller
RECURSIVE StrLess(_, _)
StrLess(a, b) ==
    IF b = <<>> THEN FALSE
    ELSE IF a = <<>> THEN TRUE
    ELSE IF Head(a) # Head(b) THEN Head(a) < Head(b)
    ELSE StrLess(Tail(a), Tail(b))

StrLeq(a, b) == a = b \/ StrLess(a, b)

\* sep.join(parts)
RECURSIVE Join(_, _)
Join(sep, parts) ==
    IF parts = <<>> THEN <<>>
    ELSE IF Len(parts) = 1 THEN parts[1]
    ELSE parts[1] \o sep \o Join(sep, Tail(parts))

\* s.replace(old, new) for a one-character old
RECURSIVE Replace(_, _, _)
Replace(s, old, new) ==
    IF s = <<>> THEN <<>>
    ELSE IF <<Head(s)>> = old THEN new \o Replace(Tail(s), old, new)
    ELSE <<Head(s)>> \o Replace(Tail(s), old, new)

\* the place of s[i] in the sorted list: behind every element with a smaller
\* key, and behind the earlier elements with the same key (the sort is stable)
Rank(keys, i) ==
    1 + Cardinality({j \in 1..Len(keys) :
                        \/ StrLess(keys[j], keys[i])
                        \/ keys[j] = keys[i] /\ j < i})

\* sorted(s, key=...) and list.sort(key=...), keys[i] being the key of s[i]
SortedBy(s, keys) ==
    [r \in 1..Len(s) |-> s[CHOOSE i \in 1..Len(s) : Rank(keys, i) = r]]

\* sorted(s) on a list of str
Sorted(s) == SortedBy(s, s)

\* sum(...) over the values of a dict of lists
RECURSIVE SumLen(_, _)
SumLen(d, keys) ==
    IF keys = {} THEN 0
    ELSE LET k == CHOOSE x \in keys : TRUE
         IN  Len(d[k]) + SumLen(d, keys \ {k})

\* d[k] = v on a dict
Store(d, k, v) ==
    [x \in DOMAIN d \cup {k} |-> IF x = k THEN v ELSE d[x]]

\* {}
EmptyDict == [x \in {} |-> <<>>]

----------------------------------------------------------------------------
(* The scanned tree.  A line of a source file is the identifier that       *)
(* follows `void ` at the start of the line and what follows `(void)`: an  *)
(* opening brace (a definition) or not (a prototype).  A file is its       *)
(* directory relative to the root, its name and its lines.                 *)

\* test_<suite>__<short>
TestIdent(suite, short) == S_test_ \o suite \o S_us \o S_us \o short

Lines ==
    { [ident |-> TestIdent(S_a_b, S_b),          brace |-> TRUE],
      [ident |-> TestIdent(S_a_b, S_a),          brace |-> TRUE],
      [ident |-> TestIdent(S_a_b, S_initialize), brace |-> TRUE],
      [ident |-> TestIdent(S_a_b, S_cleanup),    brace |-> TRUE],
      [ident |-> TestIdent(S_b, S_a),            brace |-> TRUE],
      [ident |-> TestIdent(S_a_b, S_a),          brace |-> FALSE] }

Paths ==
    { [dir |-> <<>>,    name |-> S_a_b \o S_dot_c],
      [dir |-> <<>>,    name |-> S_b \o S_dot_c],
      [dir |-> <<>>,    name |-> S_b \o S_dot_h],
      [dir |-> <<S_a>>, name |-> S_b \o S_dot_c] }

PrintModes == {"default", "bogus"}

\* the texts the asset provider can resolve
Assets ==
    { <<"clay.c">>, <<"clay.h">>, <<"clay_sandbox.c">>, <<"clay_fixtures.c">>,
      <<"clay_fs.c">>, <<"clay_print_", "default", ".c">> }

----------------------------------------------------------------------------
(* Signature extraction and suite assembly.                                *)

\* the text TEST_FUNC_REGEX % suite_name must find in front of `__<short>`
SuitePrefix(suite_name) == S_test_ \o suite_name \o S_us \o S_us

\* one match of the regex on a line
Matches(suite_name, line) ==
    /\ line.brace
    /\ StartsWith(line.ident, SuitePrefix(suite_name))
    /\ Len(line.ident) > Len(SuitePrefix(suite_name))

\* the groups of one match, as the dict _process_test_file builds
MatchData(suite_name, line) ==
    [short_name  |-> DropFirst(line.ident, Len(SuitePrefix(suite_name))),
     declaration |-> S_void_ \o line.ident \o S_args,
     symbol      |-> line.ident]

\* regex.findall(contents)
FindAll(suite_name, contents) ==
    LET lines == SelectSeq(contents, LAMBDA l : Matches(suite_name, l))
    IN  [i \in 1..Len(lines) |-> MatchData(suite_name, lines[i])]

IsOrdinary(data) == data.short_name \notin {S_initialize, S_cleanup}

\* the value a name assigned in the loop holds after it: the last match of
\* that short name, or None
LastNamed(found, short) ==
    LET named == SelectSeq(found, LAMBDA d : d.short_name = short)
    IN  IF named = <<>> THEN <<>> ELSE <<named[Len(named)]>>

\* [x['short_name'] for x in found]
ShortNames(found) == [i \in 1..Len(found) |-> found[i].short_name]

\* [x['declaration'] for x in found]
Declarations(found) == [i \in 1..Len(found) |-> found[i].declaration]

\* `if not callbacks: return`
IsDiscarded_Never(callbacks) == FALSE

IsDiscarded(callbacks) == callbacks = <<>>

\* what the file appends to self.declarations
FileDeclarations_NoCleanup(initialize, cleanup, callbacks) ==
    Declarations(initialize) \o Declarations(callbacks)

FileDeclarations(initialize, cleanup, callbacks) ==
    Declarations(initialize) \o Declarations(cleanup)
        \o Declarations(callbacks)

\* callbacks.sort(key=lambda x: x['short_name'])
StoredCallbacks_Unsorted(callbacks) == callbacks

StoredCallbacks(callbacks) == SortedBy(callbacks, ShortNames(callbacks))

\* the registry after _process_test_file(suite_name, contents)
ProcessTestFile(reg, suite_name, contents) ==
    LET found      == FindAll(suite_name, contents)
        initialize == LastNamed(found, S_initialize)
        cleanup    == LastNamed(found, S_cleanup)
        callbacks  == SelectSeq(found, IsOrdinary)
        suite      == [name       |-> suite_name,
                       initialize |-> initialize,
                       cleanup    |-> cleanup,
                       cb_count   |-> Len(callbacks)]
    IN  IF IsDiscarded(callbacks) THEN reg
        ELSE [declarations  |-> reg.declarations
                                  \o FileDeclarations(initialize, cleanup,
                                                      callbacks),
              suite_names   |-> Append(reg.suite_names, suite_name),
              callback_data |-> Store(reg.callback_data, suite_name,
                                      StoredCallbacks(callbacks)),
              suite_data    |-> Store(reg.suite_data, suite_name, suite)]

\* fnmatch.filter(files, "*.c")
IsTestFile(name) ==
    /\ Len(name) >= 2
    /\ SubSeq(name, Len(name) - 1, Len(name)) = S_dot_c

\* "_".join(module_root + [test_file[:-2]])
TestName(dir, name) == Join(S_us, Append(dir, DropLast(name, 2)))

----------------------------------------------------------------------------
(* Rendering.                                                              *)

RenderCb(cb) == [name |-> cb.short_name, ptr |-> cb.symbol]

RenderCbs(callbacks) == [i \in 1..Len(callbacks) |-> RenderCb(callbacks[i])]

\* {NULL, NULL}
NullPair == [name |-> <<>>, ptr |-> <<>>]

RenderSuite(suite) ==
    [clean_name |-> Replace(suite.name, S_us, S_scope),
     initialize |-> IF suite.initialize # <<>>
                    THEN RenderCb(suite.initialize[1]) ELSE NullPair,
     cleanup    |-> IF suite.cleanup # <<>>
                    THEN RenderCb(suite.cleanup[1]) ELSE NullPair,
     cb_ptr     |-> S_clay_cb_ \o suite.name,
     cb_count   |-> suite.cb_count]

RenderCallbacks(suite_name, callbacks) ==
    [array     |-> S_clay_cb_ \o suite_name,
     callbacks |-> RenderCbs(SelectSeq(callbacks, IsOrdinary))]

ExternLine(decl) == S_extern_ \o decl \o S_semi

ExternLines(decls) == [i \in 1..Len(decls) |-> ExternLine(decls[i])]

\* the extern_declarations substituted into clay.h, line by line
RenderHeader_Unsorted(reg) == ExternLines(reg.declarations)

RenderHeader(reg) == ExternLines(Sorted(reg.declarations))

CallbackCount_PerName(reg) ==
    LET sum[i \in 0..Len(reg.suite_names)] ==
            IF i = 0 THEN 0
            ELSE sum[i - 1] + Len(reg.callback_data[reg.suite_names[i]])
    IN  sum[Len(reg.suite_names)]

\* sum(len(cbs) for cbs in self.callback_data.values())
CallbackCount(reg) == SumLen(reg.callback_data, DOMAIN reg.callback_data)

\* the values substituted into clay.c
RenderMain(reg, mods) ==
    LET names == Sorted(reg.suite_names)
        suites == [i \in 1..Len(names) |-> RenderSuite(reg.suite_data[names[i]])]
    IN  [clay_modules        |-> mods,
         clay_callbacks      |-> [i \in 1..Len(names) |->
                                     RenderCallbacks(names[i],
                                         reg.callback_data[names[i]])],
         clay_suites         |-> suites,
         clay_suite_count    |-> Len(suites),
         clay_callback_count |-> CallbackCount(reg)]

\* _load_file(filename) returns the text
Loads(filename) == filename \in Assets

\* every text _render_main loads: the template, then the modules
MainLoads(mods) ==
    /\ Loads(<<"clay.c">>)
    /\ \A i \in 1..Len(mods) : Loads(mods[i])

----------------------------------------------------------------------------
(* The run: ClayTestBuilder(folder, print_mode) then builder.render().     *)

Registry ==
    [declarations  |-> declarations,
     suite_names   |-> suite_names,
     callback_data |-> callback_data,
     suite_data    |-> suite_data]

Absent == [exists |-> FALSE, body |-> <<>>]

\* open(path, "w")
Truncated == [exists |-> TRUE, body |-> <<>>]

\* out.write(text)
Written(text) == [exists |-> TRUE, body |-> <<text>>]

\* the names bound where __init__ raises
InitScope ==
    { "self", "path", "clay_path", "print_mode", "root", "dirs", "files",
      "module_root", "tests_in_module", "test_file", "full_path", "test_name",
      "f", "VERSION", "TEST_FUNC_REGEX", "CLAY_HEADER", "main",
      "ClayTestBuilder", "Template", "re", "fnmatch", "os" }

\* the exception that leaves __init__ when suite_data is empty: the message
\* is formatted before RuntimeError is constructed
NoTestsError ==
    IF "folder_name" \in InitScope THEN "RuntimeError: No tests found"
    ELSE "NameError"

TotalLines(files) ==
    LET sum[i \in 0..Len(files)] ==
            IF i = 0 THEN 0 ELSE sum[i - 1] + Len(files[i].contents)
    IN  sum[Len(files)]

\* os.walk is top-down: the root's files come before any subdirectory's, a
\* directory's files come together, and no path comes twice
WalkOrder(path) ==
    /\ \A i \in 1..Len(walked) :
          ~(walked[i].dir = path.dir /\ walked[i].name = path.name)
    /\ \A i \in 1..Len(walked) : Len(walked[i].dir) <= Len(path.dir)
    /\ IF walked = <<>> THEN TRUE
       ELSE IF walked[Len(walked)].dir = path.dir THEN TRUE
       ELSE \A i \in 1..Len(walked) : walked[i].dir # path.dir

Init ==
    /\ pc = "walk"
    /\ print_mode \in PrintModes
    /\ modules = << <<"clay_sandbox.c">>, <<"clay_fixtures.c">>, <<"clay_fs.c">>,
                    <<"clay_print_", print_mode, ".c">> >>
    /\ walked = <<>>
    /\ declarations = <<>>
    /\ suite_names = <<>>
    /\ callback_data = EmptyDict
    /\ suite_data = EmptyDict
    /\ main_file = Absent
    /\ header_file = Absent
    /\ err = "none"

\* one file of the walk that fnmatch keeps: read and processed
WalkTestFile ==
    /\ pc = "walk"
    /\ Len(walked) < MaxFiles
    /\ \E path \in Paths :
       \E n \in 0..(MaxLines - TotalLines(walked)) :
       \E contents \in [1..n -> Lines] :
          /\ WalkOrder(path)
          /\ IsTestFile(path.name)
          /\ walked' = Append(walked, [dir |-> path.dir, name |-> path.name,
                                       contents |-> contents])
          /\ LET reg == ProcessTestFile(Registry, TestName(path.dir, path.name),
                                        contents)
             IN  /\ declarations' = reg.declarations
                 /\ suite_names' = reg.suite_names
                 /\ callback_data' = reg.callback_data
                 /\ suite_data' = reg.suite_data
    /\ UNCHANGED <<pc, print_mode, modules, main_file, header_file, err>>

\* one file of the walk that fnmatch drops: never opened
WalkOtherFile ==
    /\ pc = "walk"
    /\ Len(walked) < MaxFiles
    /\ \E path \in Paths :
          /\ WalkOrder(path)
          /\ ~IsTestFile(path.name)
          /\ walked' = Append(walked, [dir |-> path.dir, name |-> path.name,
                                       contents |-> <<>>])
    /\ UNCHANGED <<pc, print_mode, modules, declarations, suite_names,
                   callback_data, suite_data, main_file, header_file, err>>

\* the walk is over and suite_data is empty
InitFails ==
    /\ pc = "walk"
    /\ DOMAIN suite_data = {}
    /\ pc' = "failed"
    /\ err' = NoTestsError
    /\ UNCHANGED <<print_mode, modules, walked, declarations, suite_names,
                   callback_data, suite_data, main_file, header_file>>

\* the walk is over and __init__ returns
InitReturns ==
    /\ pc = "walk"
    /\ DOMAIN suite_data # {}
    /\ pc' = "constructed"
    /\ UNCHANGED <<print_mode, modules, walked, declarations, suite_names,
                   callback_data, suite_data, main_file, header_file, err>>

\* render() when a text of _render_main does not load: clay_main.c is open
RenderMainFails ==
    /\ pc = "constructed"
    /\ ~MainLoads(modules)
    /\ main_file' = Truncated
    /\ pc' = "failed"
    /\ err' = "LookupError"
    /\ UNCHANGED <<print_mode, modules, walked, declarations, suite_names,
                   callback_data, suite_data, header_file>>

\* render() to its end
RenderReturns ==
    /\ pc = "constructed"
    /\ MainLoads(modules)
    /\ Loads(<<"clay.h">>)
    /\ main_file' = Written(RenderMain(Registry, modules))
    /\ header_file' = Written(RenderHeader(Registry))
    /\ pc' = "done"
    /\ UNCHANGED <<print_mode, modules, walked, declarations, suite_names,
                   callback_data, suite_data, err>>

Next ==
    \/ WalkTestFile
    \/ WalkOtherFile
    \/ InitFails
    \/ InitReturns
    \/ RenderMainFails
    \/ RenderReturns

Spec == Init /\ [][Next]_vars

----------------------------------------------------------------------------
(* What the claims speak about.                                            *)

EmptyRegistry ==
    [declarations  |-> <<>>,
     suite_names   |-> <<>>,
     callback_data |-> EmptyDict,
     suite_data    |-> EmptyDict]

\* the text render() writes to clay_main.c and clay.h from the registry
MainText == RenderMain(Registry, modules)
HeaderText == RenderHeader(Registry)

\* the walked files handed to _process_test_file, in walk order
IsProcessed(f) == IsTestFile(f.name)
Processed == SelectSeq(walked, IsProcessed)

FileSuite(f) == TestName(f.dir, f.name)
FileMatches(f) == FindAll(FileSuite(f), f.contents)
FileCallbacks(f) == SelectSeq(FileMatches(f), IsOrdinary)
HasCallbacks(f) == FileCallbacks(f) # <<>>

\* the registry a file yields when it is the only one processed
Alone(f) == ProcessTestFile(EmptyRegistry, FileSuite(f), f.contents)

\* how often x occurs in the list s
Count(s, x) == Cardinality({k \in 1..Len(s) : s[k] = x})

IsSorted(s) == \A k \in 1..(Len(s) - 1) : StrLeq(s[k], s[k + 1])

\* the last file walked, when it was handed to _process_test_file
LastProcessed ==
    IF walked # <<>> /\ IsProcessed(walked[Len(walked)])
    THEN <<walked[Len(walked)]>> ELSE <<>>

\* the processed files that gave the registry its entry of their suite name:
\* the last one of that name with an ordinary callback
IsLastOfSuite(j) ==
    /\ HasCallbacks(Processed[j])
    /\ \A k \in (j + 1)..Len(Processed) :
          ~(FileSuite(Processed[k]) = FileSuite(Processed[j])
              /\ HasCallbacks(Processed[k]))

\* a later file replaces an earlier one of the same suite name
Collide(i, j) ==
    /\ i < j
    /\ FileSuite(Processed[i]) = FileSuite(Processed[j])
    /\ HasCallbacks(Processed[i])
    /\ IsLastOfSuite(j)

----------------------------------------------------------------------------
\* C1: when two processed files derive the same suite name and each has an
\* ordinary callback, the main text holds exactly one callback array and
\* exactly one suite descriptor of that name, both as the later file alone
\* yields them, and no declaration that only the earlier file contributed is
\* left in the header.
C1_LaterReplacesEarlier ==
    \A i, j \in 1..Len(Processed) :
        Collide(i, j) =>
            LET name  == FileSuite(Processed[j])
                later == RenderMain(Alone(Processed[j]), modules)
                arrays == {k \in 1..Len(MainText.clay_callbacks) :
                             MainText.clay_callbacks[k].array = S_clay_cb_ \o name}
                suites == {k \in 1..Len(MainText.clay_suites) :
                             MainText.clay_suites[k].cb_ptr = S_clay_cb_ \o name}
                others == {k \in 1..Len(Processed) : k # i}
            IN  /\ Cardinality(arrays) = 1
                /\ \A k \in arrays :
                      MainText.clay_callbacks[k] = later.clay_callbacks[1]
                /\ Cardinality(suites) = 1
                /\ \A k \in suites :
                      MainText.clay_suites[k] = later.clay_suites[1]
                /\ \A m \in 1..Len(Alone(Processed[i]).declarations) :
                      LET d == Alone(Processed[i]).declarations[m]
                      IN  Count(HeaderText, ExternLine(d)) > 0 =>
                              \E k \in others :
                                  Count(Alone(Processed[k]).declarations, d) > 0

----------------------------------------------------------------------------
\* the matches of every processed file, file by file
AllMatches == [i \in 1..Len(Processed) |-> FileMatches(Processed[i])]

\* the declarations matched in the files whose matches are found
MatchedDecls(found) ==
    UNION {{found[i][k].declaration : k \in 1..Len(found[i])} :
              i \in 1..Len(found)}

\* how often a file with the matches m records the declaration d: never
\* without an ordinary callback, else once for the last initialize, the last
\* cleanup and every ordinary callback that has it
Recorded(m, d) ==
    IF SelectSeq(m, IsOrdinary) = <<>> THEN 0
    ELSE Count(Declarations(SelectSeq(m, IsOrdinary)), d)
         + Count(Declarations(LastNamed(m, S_initialize)), d)
         + Count(Declarations(LastNamed(m, S_cleanup)), d)

RecordedInAll(found, d) ==
    LET sum[i \in 0..Len(found)] ==
            IF i = 0 THEN 0 ELSE sum[i - 1] + Recorded(found[i], d)
    IN  sum[Len(found)]

\* C2 as stated: with at least one valid test function, the header has exactly
\* one extern line per distinct declaration matched in any scanned file, no
\* other line, and the lines are in lexicographic order.
C2_OneExternPerMatchedDeclaration ==
    LET header == HeaderText
        decls  == MatchedDecls(AllMatches)
    IN  DOMAIN suite_data # {} =>
            /\ \A d \in decls : Count(header, ExternLine(d)) = 1
            /\ Len(header) = Cardinality(decls)
            /\ IsSorted(header)

\* C2 (amended): the header has one extern line per recorded declaration - for
\* each file with an ordinary callback its last initialize, its last cleanup
\* and each ordinary callback match, a declaration recorded twice being
\* repeated and one matched only in a file without ordinary callback being
\* absent - and the lines are in non-decreasing lexicographic order.
C2_OneExternPerRecordedDeclaration ==
    LET header == HeaderText
        found  == AllMatches
        decls  == MatchedDecls(found)
    IN  /\ \A d \in decls :
              Count(header, ExternLine(d)) = RecordedInAll(found, d)
        /\ \A k \in 1..Len(header) :
              \E d \in decls : header[k] = ExternLine(d)
        /\ IsSorted(header)

\* clay.h is written with a repeated line, from a tree with at least one
\* valid test function
C2_Witness ==
    /\ DOMAIN suite_data # {}
    /\ \E d \in MatchedDecls(AllMatches) : RecordedInAll(AllMatches, d) = 2
    /\ pc = "done"
    /\ header_file = Written(HeaderText)

----------------------------------------------------------------------------
\* C3: a run either completes having written both output files, or fails
\* with neither output file created, truncated or written.
C3_FailsBeforeAnyOutput ==
    /\ pc = "done" =>
          /\ main_file.exists /\ main_file.body # <<>>
          /\ header_file.exists /\ header_file.body # <<>>
    /\ pc = "failed" => ~main_file.exists /\ ~header_file.exists

----------------------------------------------------------------------------
\* C4: when the walk ends with no suite, generation fails with the 'No tests
\* found' RuntimeError and writes neither output file.
C4_NoTestsConfigurationError ==
    (pc # "walk" /\ DOMAIN suite_data = {}) =>
        /\ pc = "failed"
        /\ err = "RuntimeError: No tests found"
        /\ ~main_file.exists /\ ~header_file.exists

----------------------------------------------------------------------------
\* the registry after the files in the order p
InOrder(files, p) ==
    LET reg[i \in 0..Len(files)] ==
            IF i = 0 THEN EmptyRegistry
            ELSE ProcessTestFile(reg[i - 1], FileSuite(files[p[i]]),
                                 files[p[i]].contents)
    IN  reg[Len(files)]

\* the orders of n files
Orders(n) == {p \in [1..n -> 1..n] : \A a, b \in 1..n : p[a] = p[b] => a = b}

\* C5: the header text is the same for every order in which the same files
\* are handed to _process_test_file.
C5_HeaderIndependentOfOrder ==
    LET header == HeaderText
        files  == Processed
    IN  \A p \in Orders(Len(files)) :
            RenderHeader(InOrder(files, p)) = header

\* two files of the same suite name whose declarations are recorded in another
\* order when the files are swapped
C5_Witness ==
    /\ \E i, j \in 1..Len(Processed) : Collide(i, j)
    /\ \E p \in Orders(Len(Processed)) :
          InOrder(Processed, p).declarations # declarations
    /\ HeaderText # <<>>

----------------------------------------------------------------------------
\* a file whose matches are initialize and cleanup only
OnlyLifecycle(f) ==
    /\ FileMatches(f) # <<>>
    /\ ~HasCallbacks(f)

\* C6: processing a file whose matches are only initialize and/or cleanup
\* leaves declarations, suite_names, callback_data and suite_data, and so both
\* rendered texts, unchanged.
C6_LifecycleOnlyFileLeavesRegistry ==
    [][ (/\ Len(walked') = Len(walked) + 1
         /\ IsProcessed(walked'[Len(walked')])
         /\ OnlyLifecycle(walked'[Len(walked')]))
        => /\ registry' = registry
           /\ HeaderText' = HeaderText
           /\ MainText' = MainText ]_vars

\* a file with a lifecycle function only has just been processed after a
\* file that gave the registry a suite
C6_Witness ==
    /\ LastProcessed # <<>>
    /\ OnlyLifecycle(LastProcessed[1])
    /\ DOMAIN suite_data # {}

----------------------------------------------------------------------------
\* C7: every rendered callback table lists its callbacks in non-decreasing
\* code point order of short_name and has no initialize or cleanup entry.
C7_CallbackTablesSorted ==
    \A k \in 1..Len(MainText.clay_callbacks) :
        LET table == MainText.clay_callbacks[k].callbacks
        IN  /\ IsSorted([m \in 1..Len(table) |-> table[m].name])
            /\ \A m \in 1..Len(table) :
                  table[m].name \notin {S_initialize, S_cleanup}

\* a file that defines b before a is rendered
C7_Witness ==
    /\ LastProcessed # <<>>
    /\ ~IsSorted(ShortNames(FileCallbacks(LastProcessed[1])))
    /\ \E k \in 1..Len(MainText.clay_callbacks) :
          Len(MainText.clay_callbacks[k].callbacks) = 2

----------------------------------------------------------------------------
RECURSIVE SumCbCount(_, _)
SumCbCount(d, keys) ==
    IF keys = {} THEN 0
    ELSE LET k == CHOOSE x \in keys : TRUE
         IN  d[k].cb_count + SumCbCount(d, keys \ {k})

\* C8: clay_callback_count is the sum of cb_count over the Suites of
\* suite_data.
C8_CallbackCountIsSumOfSuites ==
    MainText.clay_callback_count = SumCbCount(suite_data, DOMAIN suite_data)

\* a suite name was derived twice and its callbacks are counted
C8_Witness ==
    /\ \E i, j \in 1..Len(Processed) : Collide(i, j)
    /\ MainText.clay_callback_count > 0

----------------------------------------------------------------------------
\* C9: the display name of every suite descriptor is the path components of
\* the suite's file (directories, then the base name without .c) joined by ::.
C9_DisplayNameJoinsComponents ==
    \A j \in 1..Len(Processed) :
        IsLastOfSuite(j) =>
            LET f == Processed[j]
            IN  \A k \in 1..Len(MainText.clay_suites) :
                    MainText.clay_suites[k].cb_ptr = S_clay_cb_ \o FileSuite(f)
                    => MainText.clay_suites[k].clean_name
                         = Join(S_scope, Append(f.dir, DropLast(f.name, 2)))

----------------------------------------------------------------------------
\* C10: clay_suite_count, the number of suite descriptors and the number of
\* callback arrays all equal the number of entries of suite_data, and the
\* suites are emitted in lexicographic order of name.
C10_SuiteCountIsRegistrySize ==
    /\ MainText.clay_suite_count = Cardinality(DOMAIN suite_data)
    /\ Len(MainText.clay_suites) = Cardinality(DOMAIN suite_data)
    /\ Len(MainText.clay_callbacks) = Cardinality(DOMAIN suite_data)
    /\ IsSorted([k \in 1..Len(MainText.clay_suites) |->
                    MainText.clay_suites[k].cb_ptr])
    /\ IsSorted([k \in 1..Len(MainText.clay_callbacks) |->
                    MainText.clay_callbacks[k].array])

====
